---- MODULE Spec2Model ----
(***************************************************************************)
(* Model of backend/main.py: the FastAPI service that keeps opened IFC     *)
(* models in the process-wide dict ifc_files and answers upload, query,    *)
(* remove and list requests.  The handlers are coroutines on one event    *)
(* loop: a handler runs without interruption except at an await, and the  *)
(* only await in the file is `await file.read()` in upload_ifc.           *)
(***************************************************************************)
EXTENDS Integers, Sequences, FiniteSets, TLC

VARIABLES
    ifc_files,   \* the dict of main.py:24, as the sequence of its items (insertion order)
    disk,        \* the scratch files that exist in the temporary directory
    issued,      \* number of uploads started: model_ids and scratch names drawn so far
    slots,       \* per connection: the coroutine suspended or scheduled on the event loop
    resp,        \* the response produced by the step just taken
    uploaded,    \* history: model_id -> filename (and raced) of every Upload answered 200
    removed,     \* history: the model_ids whose Remove was answered 200
    lost         \* history: number of scratch files deleted from outside the service

vars == <<ifc_files, disk, issued, slots, resp, uploaded, removed, lost>>

(***************************** bounds **************************************)
MaxModels == 2      \* uploads started in a run
NumSlots == 2       \* connections served at the same time
MaxQueuedModels == 1 \* uploads started in a run with queued DELETE requests
MaxLost == 1        \* scratch files deleted from outside the service in a run
MaxRels == 2        \* relationships in IsDefinedBy of a drawn element
MaxQuantities == 1  \* quantities in one IfcElementQuantity of a drawn element

ModelIds == 1..MaxModels
UnknownId == MaxModels + 1         \* a model_id string no uuid4 call ever returns
Slots == 1..NumSlots

None == "None"                     \* Python's None

(************************* the IFC engine's data ***************************)
\* A quantity entity: hasattr(quantity, 'LengthValue') holds exactly for an
\* IfcQuantityLength, and so on; IfcQuantityCount carries none of the three.
Quantity(n, k, v) == [Name |-> n, kind |-> k, value |-> v]

QuantityPool ==
    { Quantity("Length", "IfcQuantityLength", 5),
      Quantity("Length", "IfcQuantityLength", 6),
      Quantity("NetArea", "IfcQuantityArea", 7),
      Quantity("NetVolume", "IfcQuantityVolume", 9),
      Quantity("Count", "IfcQuantityCount", 4) }

ElementQuantity(qs) == [is_a |-> "IfcElementQuantity", Quantities |-> qs]
PropertySetDef == [is_a |-> "IfcPropertySet", Quantities |-> << >>]
\* IFC4 allows a set of definitions as RelatingPropertyDefinition; the engine
\* hands it out as a tuple, on which .is_a raises AttributeError.
DefinitionSet == [is_a |-> "tuple", Quantities |-> << >>]

RelDefinesByProperties(d) == [is_a |-> "IfcRelDefinesByProperties", RelatingPropertyDefinition |-> d]
RelDefinesByType == [is_a |-> "IfcRelDefinesByType", RelatingPropertyDefinition |-> PropertySetDef]

NoPsets == << >>
WallPsets == [Pset_WallCommon |-> [IsExternal |-> TRUE]]

\* An element as the engine presents it: psetsOk is whether
\* ifcopenshell.util.element.get_psets returns (psets) or raises; hasIsDefinedBy
\* is whether the entity type carries the inverse attribute at all.
Element(g, t, pok, ps, hd, rels, aok) ==
    [ GlobalId |-> g, Name |-> "n-" \o g, is_a |-> t,
      attrsOk |-> aok, ObjectType |-> None, Tag |-> "t-" \o g, Description |-> None,
      psetsOk |-> pok, psets |-> ps,
      hasIsDefinedBy |-> hd, IsDefinedBy |-> rels ]

Wall1 == Element("g1", "IfcWall", TRUE, WallPsets, TRUE,
                 << RelDefinesByType,
                    RelDefinesByProperties(PropertySetDef),
                    RelDefinesByProperties(ElementQuantity(
                        << Quantity("Length", "IfcQuantityLength", 5),
                           Quantity("Count", "IfcQuantityCount", 4) >>)) >>, TRUE)
Slab2 == Element("g2", "IfcSlab", FALSE, NoPsets, TRUE,
                 << RelDefinesByProperties(ElementQuantity(
                        << Quantity("NetArea", "IfcQuantityArea", 7) >>)),
                    RelDefinesByProperties(DefinitionSet) >>, TRUE)

Guids == {"g1", "g2"}

\* What ifcopenshell.open makes of the bytes of an upload.
OpenedModel(ps, els) == [projects |-> ps, elements |-> els]
ModelA == OpenedModel(<< [Name |-> "ProjA"] >>, {Wall1})
ModelB == OpenedModel(<< >>, {Slab2})

\* The files a client sends: a filename and the bytes.
Garbage == "not-an-ifc"
Files == { [filename |-> "a.ifc", content |-> "A"],
           [filename |-> "b.ifc", content |-> "B"],
           [filename |-> "b.ifc", content |-> Garbage] }
Filenames == {f.filename : f \in Files}
Contents == {f.content : f \in Files}

CanOpen(content) == content \in {"A", "B"}
Open(content) == IF content = "A" THEN ModelA ELSE ModelB

(**************************** responses ************************************)
\* An HTTP answer.  detail is the message of an HTTPException, kept as the
\* pieces the f-string joins, so that "the message contains the guid" can be read
\* off; body is the JSON of a 200.
Response(op, status, detail, model_id, guid, body) ==
    [op |-> op, status |-> status, detail |-> detail,
     model_id |-> model_id, guid |-> guid, body |-> body]
NoResponse == Response("none", 0, << >>, UnknownId, None, None)

ModelNotFound == << "Model not found" >>
ElementNotFound(guid) == << "Element with GUID ", guid, " not found" >>
\* str(e) of the RuntimeError ifcopenshell raises from by_guid
ByGuidError(guid) == << "Instance with GlobalId '", guid, "' not found" >>

(************************** the Model Store ********************************)
Keys(files) == {files[i].model_id : i \in DOMAIN files}
Contains(files, model_id) == model_id \in Keys(files)
\* ifc_files[model_id]
Item(files, model_id) ==
    files[CHOOSE i \in DOMAIN files : files[i].model_id = model_id]
\* del ifc_files[model_id] written as ifc_files.clear()
DelItem_clear(files, model_id) == << >>
\* del ifc_files[model_id]
DelItem(files, model_id) ==
    SelectSeq(files, LAMBDA e : e.model_id # model_id)

\* a store that puts a new key first
SetItem_prepend(files, model_id, value) ==
    IF Contains(files, model_id)
    THEN [i \in DOMAIN files |-> IF files[i].model_id = model_id THEN value ELSE files[i]]
    ELSE << value >> \o files

\* ifc_files[model_id] = value: a new key goes last, a present key keeps its place
SetItem(files, model_id, value) ==
    IF Contains(files, model_id)
    THEN [i \in DOMAIN files |-> IF files[i].model_id = model_id THEN value ELSE files[i]]
    ELSE Append(files, value)
Entry(model_id, handle, path, filename) ==
    [model_id |-> model_id, file |-> handle, path |-> path, filename |-> filename]

(************************ the Element Projector ****************************)
HasAttr(quantity, attr) ==
    \/ attr = "LengthValue" /\ quantity.kind = "IfcQuantityLength"
    \/ attr = "AreaValue" /\ quantity.kind = "IfcQuantityArea"
    \/ attr = "VolumeValue" /\ quantity.kind = "IfcQuantityVolume"

\* the area branch copied from the length branch with its unit left as "m"
PutQuantity_area_in_m(quantities, quantity) ==
    IF HasAttr(quantity, "LengthValue") \/ HasAttr(quantity, "AreaValue")
    THEN (quantity.Name :> [value |-> quantity.value, unit |-> "m"]) @@ quantities
    ELSE IF HasAttr(quantity, "VolumeValue")
    THEN (quantity.Name :> [value |-> quantity.value, unit |-> "m³"]) @@ quantities
    ELSE quantities

\* the if / elif / elif of main.py:128-142 on one quantity
PutQuantity(quantities, quantity) ==
    IF HasAttr(quantity, "LengthValue")
    THEN (quantity.Name :> [value |-> quantity.value, unit |-> "m"]) @@ quantities
    ELSE IF HasAttr(quantity, "AreaValue")
    THEN (quantity.Name :> [value |-> quantity.value, unit |-> "m²"]) @@ quantities
    ELSE IF HasAttr(quantity, "VolumeValue")
    THEN (quantity.Name :> [value |-> quantity.value, unit |-> "m³"]) @@ quantities
    ELSE quantities

RECURSIVE PutQuantities(_, _)
PutQuantities(quantities, qs) ==
    IF qs = << >> THEN quantities
    ELSE PutQuantities(PutQuantity(quantities, Head(qs)), Tail(qs))

\* the loop over element.IsDefinedBy, main.py:123-142: the mapping collected,
\* or raised when a step of the walk throws
RECURSIVE WalkRels(_, _)
WalkRels(rels, quantities) ==
    IF rels = << >> THEN [raised |-> FALSE, quantities |-> quantities]
    ELSE LET rel == Head(rels)
             prop_def == rel.RelatingPropertyDefinition
         IN  IF rel.is_a = "IfcRelDefinesByProperties"
             THEN IF prop_def.is_a = "tuple"
                  THEN [raised |-> TRUE, quantities |-> quantities]
                  ELSE IF prop_def.is_a = "IfcElementQuantity"
                  THEN WalkRels(Tail(rels), PutQuantities(quantities, prop_def.Quantities))
                  ELSE WalkRels(Tail(rels), quantities)
             ELSE WalkRels(Tail(rels), quantities)

EmptyMap == << >>

\* the quantities walk sharing the try block of get_psets: a failure of the
\* walk leaves psets empty
Project_one_try(element) ==
    LET walk == IF element.hasIsDefinedBy
                THEN WalkRels(element.IsDefinedBy, EmptyMap)
                ELSE [raised |-> TRUE, quantities |-> EmptyMap]
        psets == IF element.psetsOk /\ ~walk.raised THEN element.psets ELSE EmptyMap
    IN  [ guid |-> element.GlobalId, name |-> element.Name, type |-> element.is_a,
          properties |-> IF element.attrsOk
                         THEN [ObjectType |-> element.ObjectType, Tag |-> element.Tag,
                               Description |-> element.Description]
                         ELSE EmptyMap,
          psets |-> IF ~walk.raised /\ DOMAIN walk.quantities # {}
                    THEN ("Quantities" :> walk.quantities) @@ psets
                    ELSE psets ]

\* main.py:94-150: element_data as returned
Project(element) ==
    LET properties ==
            IF element.attrsOk
            THEN [ObjectType |-> element.ObjectType, Tag |-> element.Tag,
                  Description |-> element.Description]
            ELSE EmptyMap
        psets == IF element.psetsOk THEN element.psets ELSE EmptyMap
        walk == IF element.hasIsDefinedBy
                THEN WalkRels(element.IsDefinedBy, EmptyMap)
                ELSE [raised |-> TRUE, quantities |-> EmptyMap]
    IN  [ guid |-> element.GlobalId, name |-> element.Name, type |-> element.is_a,
          properties |-> properties,
          psets |-> IF ~walk.raised /\ DOMAIN walk.quantities # {}
                    THEN ("Quantities" :> walk.quantities) @@ psets
                    ELSE psets ]

(***************************** the handlers ********************************)
\* ifc_file.by_guid(guid), main.py:89.  For an identifier no element carries
\* the engine either raises RuntimeError (ifcopenshell's documented behaviour)
\* or hands back a falsy value (what the test of main.py:91 expects).
ByGuidMiss == {"raise", "falsy"}
by_guid(handle, guid, miss) ==
    IF \E e \in handle.elements : e.GlobalId = guid
    THEN [outcome |-> "found",
          element |-> CHOOSE e \in handle.elements : e.GlobalId = guid]
    ELSE [outcome |-> miss, element |-> None]

\* the handler without the test of main.py:82: the lookup in the dict raises
\* KeyError inside the try block
get_element_by_guid_unchecked(files, model_id, guid, miss) ==
    IF ~Contains(files, model_id)
    THEN Response("Query", 500, << "Error retrieving element: ", "KeyError" >>,
                  model_id, guid, None)
    ELSE LET found == by_guid(Item(files, model_id).file, guid, miss)
         IN  IF found.outcome = "raise"
             THEN Response("Query", 500,
                           << "Error retrieving element: " >> \o ByGuidError(guid),
                           model_id, guid, None)
             ELSE IF found.outcome = "falsy"
             THEN Response("Query", 404, ElementNotFound(guid), model_id, guid, None)
             ELSE Response("Query", 200, << >>, model_id, guid, Project(found.element))

\* POST /get-element-by-guid, main.py:78-155
get_element_by_guid(files, model_id, guid, miss) ==
    IF ~Contains(files, model_id)
    THEN Response("Query", 404, ModelNotFound, model_id, guid, None)
    ELSE LET ifc_file == Item(files, model_id).file
             found == by_guid(ifc_file, guid, miss)
         IN  IF found.outcome = "raise"
             THEN Response("Query", 500,
                           << "Error retrieving element: " >> \o ByGuidError(guid),
                           model_id, guid, None)
             ELSE IF found.outcome = "falsy"
             THEN Response("Query", 404, ElementNotFound(guid), model_id, guid, None)
             ELSE Response("Query", 200, << >>, model_id, guid, Project(found.element))

\* What `await file.read()` gives back: the bytes, or an exception.
ReadError == "read-error"

\* the handler with the entry stored before the engine opens the file
upload_ifc_stores_first(files, model_id, tmp_path, filename, read, exists, late) ==
    IF read = ReadError
    THEN [ifc_files |-> files,
          resp |-> Response("Upload", 500, << "Error processing IFC: ", "read" >>,
                            model_id, None, None)]
    ELSE LET ifc_file == IF CanOpen(read) THEN Open(read) ELSE OpenedModel(<< >>, {})
             stored == SetItem(files, model_id, Entry(model_id, ifc_file, tmp_path, filename))
         IN  IF ~(exists /\ CanOpen(read))
             THEN [ifc_files |-> stored,
                   resp |-> Response("Upload", 500, << "Error processing IFC: ", "open" >>,
                                     model_id, None, None)]
             ELSE IF late
             THEN [ifc_files |-> stored,
                   resp |-> Response("Upload", 500, << "Error processing IFC: ", "by_type" >>,
                                     model_id, None, None)]
             ELSE [ifc_files |-> stored,
                   resp |-> Response("Upload", 200, << >>, model_id, None,
                       [ model_id |-> model_id,
                         filename |-> filename,
                         project_name |-> IF ifc_file.projects # << >>
                                          THEN ifc_file.projects[1].Name
                                          ELSE "Unknown",
                         total_elements |-> Cardinality(ifc_file.elements),
                         message |-> "IFC file uploaded successfully" ])]

\* the handler with `ifc_file.by_type("IfcProject")[0]` taken without the test
\* for an empty list: IndexError after the entry was stored
upload_ifc_project_required(files, model_id, tmp_path, filename, read, exists, late) ==
    IF read = ReadError
    THEN [ifc_files |-> files,
          resp |-> Response("Upload", 500, << "Error processing IFC: ", "read" >>,
                            model_id, None, None)]
    ELSE IF ~(exists /\ CanOpen(read))
    THEN [ifc_files |-> files,
          resp |-> Response("Upload", 500, << "Error processing IFC: ", "open" >>,
                            model_id, None, None)]
    ELSE LET ifc_file == Open(read)
             stored == SetItem(files, model_id, Entry(model_id, ifc_file, tmp_path, filename))
         IN  IF late \/ ifc_file.projects = << >>
             THEN [ifc_files |-> stored,
                   resp |-> Response("Upload", 500, << "Error processing IFC: ", "by_type" >>,
                                     model_id, None, None)]
             ELSE [ifc_files |-> stored,
                   resp |-> Response("Upload", 200, << >>, model_id, None,
                       [ model_id |-> model_id,
                         filename |-> filename,
                         project_name |-> ifc_file.projects[1].Name,
                         total_elements |-> Cardinality(ifc_file.elements),
                         message |-> "IFC file uploaded successfully" ])]

\* POST /upload-ifc after the await, main.py:49-75: the new dict and the answer.
\* exists: the scratch file is still on disk when the engine opens it;
\* late: a call made after the entry was stored (by_type, project.Name) raises.
upload_ifc(files, model_id, tmp_path, filename, read, exists, late) ==
    IF read = ReadError
    THEN [ifc_files |-> files,
          resp |-> Response("Upload", 500, << "Error processing IFC: ", "read" >>,
                            model_id, None, None)]
    ELSE IF ~(exists /\ CanOpen(read))
    THEN [ifc_files |-> files,
          resp |-> Response("Upload", 500, << "Error processing IFC: ", "open" >>,
                            model_id, None, None)]
    ELSE LET ifc_file == Open(read)
             stored == SetItem(files, model_id, Entry(model_id, ifc_file, tmp_path, filename))
         IN  IF late
             THEN [ifc_files |-> stored,
                   resp |-> Response("Upload", 500, << "Error processing IFC: ", "by_type" >>,
                                     model_id, None, None)]
             ELSE [ifc_files |-> stored,
                   resp |-> Response("Upload", 200, << >>, model_id, None,
                       [ model_id |-> model_id,
                         filename |-> filename,
                         project_name |-> IF ifc_file.projects # << >>
                                          THEN ifc_file.projects[1].Name
                                          ELSE "Unknown",
                         total_elements |-> Cardinality(ifc_file.elements),
                         message |-> "IFC file uploaded successfully" ])]

\* the handler without `del ifc_files[model_id]`: the file goes, the entry stays
remove_model_keeps_entry(files, dsk, model_id, ioerror) ==
    IF ~Contains(files, model_id)
    THEN [ifc_files |-> files, disk |-> dsk,
          resp |-> Response("Remove", 404, ModelNotFound, model_id, None, None)]
    ELSE LET tmp_path == Item(files, model_id).path
         IN  IF tmp_path \in dsk /\ ioerror
             THEN [ifc_files |-> files, disk |-> dsk,
                   resp |-> Response("Remove", 500, << "Error removing model: ", "os.remove" >>,
                                     model_id, None, None)]
             ELSE [ifc_files |-> files,
                   disk |-> dsk \ {tmp_path},
                   resp |-> Response("Remove", 200, << >>, model_id, None,
                                     [message |-> "Model removed successfully"])]

\* the handler without the test of main.py:162: the lookup in the dict raises
\* KeyError inside the try block
remove_model_unchecked(files, dsk, model_id, ioerror) ==
    IF ~Contains(files, model_id)
    THEN [ifc_files |-> files, disk |-> dsk,
          resp |-> Response("Remove", 500, << "Error removing model: ", "KeyError" >>,
                            model_id, None, None)]
    ELSE LET tmp_path == Item(files, model_id).path
         IN  IF tmp_path \in dsk /\ ioerror
             THEN [ifc_files |-> files, disk |-> dsk,
                   resp |-> Response("Remove", 500, << "Error removing model: ", "os.remove" >>,
                                     model_id, None, None)]
             ELSE [ifc_files |-> DelItem(files, model_id),
                   disk |-> dsk \ {tmp_path},
                   resp |-> Response("Remove", 200, << >>, model_id, None,
                                     [message |-> "Model removed successfully"])]

\* the handler without the os.path.exists test of main.py:168: os.remove of a
\* missing file raises FileNotFoundError
remove_model_no_exists_test(files, dsk, model_id, ioerror) ==
    IF ~Contains(files, model_id)
    THEN [ifc_files |-> files, disk |-> dsk,
          resp |-> Response("Remove", 404, ModelNotFound, model_id, None, None)]
    ELSE LET tmp_path == Item(files, model_id).path
         IN  IF tmp_path \notin dsk \/ ioerror
             THEN [ifc_files |-> files, disk |-> dsk,
                   resp |-> Response("Remove", 500, << "Error removing model: ", "os.remove" >>,
                                     model_id, None, None)]
             ELSE [ifc_files |-> DelItem(files, model_id),
                   disk |-> dsk \ {tmp_path},
                   resp |-> Response("Remove", 200, << >>, model_id, None,
                                     [message |-> "Model removed successfully"])]

\* the handler with the entry deleted before the scratch file: an I/O error of
\* os.remove is answered 500 with the entry already gone
remove_model_del_first(files, dsk, model_id, ioerror) ==
    IF ~Contains(files, model_id)
    THEN [ifc_files |-> files, disk |-> dsk,
          resp |-> Response("Remove", 404, ModelNotFound, model_id, None, None)]
    ELSE LET tmp_path == Item(files, model_id).path
         IN  IF tmp_path \in dsk /\ ioerror
             THEN [ifc_files |-> DelItem(files, model_id), disk |-> dsk,
                   resp |-> Response("Remove", 500, << "Error removing model: ", "os.remove" >>,
                                     model_id, None, None)]
             ELSE [ifc_files |-> DelItem(files, model_id),
                   disk |-> dsk \ {tmp_path},
                   resp |-> Response("Remove", 200, << >>, model_id, None,
                                     [message |-> "Model removed successfully"])]

\* DELETE /remove-model/{model_id}, main.py:158-177.  ioerror: os.remove raises.
remove_model(files, dsk, model_id, ioerror) ==
    IF ~Contains(files, model_id)
    THEN [ifc_files |-> files, disk |-> dsk,
          resp |-> Response("Remove", 404, ModelNotFound, model_id, None, None)]
    ELSE LET tmp_path == Item(files, model_id).path
         IN  IF tmp_path \in dsk /\ ioerror
             THEN [ifc_files |-> files, disk |-> dsk,
                   resp |-> Response("Remove", 500, << "Error removing model: ", "os.remove" >>,
                                     model_id, None, None)]
             ELSE [ifc_files |-> DelItem(files, model_id),
                   disk |-> dsk \ {tmp_path},
                   resp |-> Response("Remove", 200, << >>, model_id, None,
                                     [message |-> "Model removed successfully"])]

\* GET /models, main.py:180-190
list_models(files) ==
    Response("List", 200, << >>, UnknownId, None,
             [i \in DOMAIN files |->
                 [model_id |-> files[i].model_id, filename |-> files[i].filename]])

\* GET /, main.py:193-202
root == Response("Root", 200, << >>, UnknownId, None, [message |-> "BIM IFC API Server"])

(****************************** the state **********************************)
Idle == [kind |-> "idle"]
\* upload_ifc suspended at `await file.read()`: its locals.  raced (history): a
\* Remove was answered 200 while this upload was suspended.
Uploading(model_id, tmp_path, filename, raced) ==
    [kind |-> "upload", model_id |-> model_id, tmp_path |-> tmp_path,
     filename |-> filename, raced |-> raced]
\* a DELETE request whose handler is scheduled on the event loop.  rival
\* (history): the status answered to the first other DELETE for the same
\* model_id that ran, the model being live, while this one was waiting; 0 if none.
Removing(model_id, rival) ==
    [kind |-> "remove", model_id |-> model_id, rival |-> rival]
\* the answer to a DELETE request that met a rival, kept (history) until its
\* client has read it, so that the two answers can be told together
Answered(model_id, rival, status) ==
    [kind |-> "answered", model_id |-> model_id, rival |-> rival, status |-> status]

\* the model_ids a request can name: one the service has generated, or a string
\* that is none of them
RequestIds == (1..issued) \cup {UnknownId}

\* connections are interchangeable: a request takes the first idle slot
FirstIdle(s) == slots[s] = Idle /\ \A t \in Slots : t < s => slots[t] # Idle

Init ==
    /\ ifc_files = << >>
    /\ disk = {}
    /\ issued = 0
    /\ slots = [s \in Slots |-> Idle]
    /\ resp = NoResponse
    /\ uploaded = << >>
    /\ removed = {}
    /\ lost = 0

\* a generator that hands out the same value again
uuid4_repeats(n) == 1
\* a scratch file created under one fixed name
NamedTemporaryFile_fixed(n) == 1
\* uuid.uuid4() and tempfile.NamedTemporaryFile draw 122 and about 41 random
\* bits: as the design does, the model takes a drawn value never to repeat, and
\* names the n-th model_id and the n-th scratch file by n.
uuid4(n) == n
NamedTemporaryFile(n) == n

\* main.py:45-49: the model_id is generated and the scratch file created
\* (delete=False), then the coroutine awaits the read.
UploadBegin(s, filename) ==
    /\ FirstIdle(s)
    /\ issued < MaxModels
    /\ LET model_id == uuid4(issued + 1)
           tmp_path == NamedTemporaryFile(issued + 1)
       IN  /\ disk' = disk \cup {tmp_path}
           /\ slots' = [slots EXCEPT ![s] = Uploading(model_id, tmp_path, filename, FALSE)]
    /\ issued' = issued + 1
    /\ resp' = NoResponse
    /\ UNCHANGED <<ifc_files, uploaded, removed, lost>>

\* the bytes a client can send under a filename
BytesOf(filename) == {f.content : f \in {g \in Files : g.filename = filename}}

\* the handler with the scratch file unlinked when the upload fails
UploadFinish_unlinks(s) ==
    /\ slots[s].kind = "upload"
    /\ \E read \in BytesOf(slots[s].filename) \cup {ReadError}, late \in BOOLEAN :
          LET up == slots[s]
              out == upload_ifc(ifc_files, up.model_id, up.tmp_path, up.filename,
                                read, up.tmp_path \in disk, late)
          IN  /\ ifc_files' = out.ifc_files
              /\ resp' = out.resp
              /\ disk' = IF out.resp.status = 200 THEN disk ELSE disk \ {up.tmp_path}
              /\ uploaded' = IF out.resp.status = 200
                             THEN (up.model_id :> [filename |-> up.filename,
                                                   raced |-> up.raced]) @@ uploaded
                             ELSE uploaded
    /\ slots' = [slots EXCEPT ![s] = Idle]
    /\ UNCHANGED <<issued, removed, lost>>

\* main.py:49-75: the read returns and the handler runs to its end
UploadFinish(s) ==
    /\ slots[s].kind = "upload"
    /\ \E read \in BytesOf(slots[s].filename) \cup {ReadError}, late \in BOOLEAN :
          LET up == slots[s]
              out == upload_ifc(ifc_files, up.model_id, up.tmp_path, up.filename,
                                read, up.tmp_path \in disk, late)
          IN  /\ ifc_files' = out.ifc_files
              /\ resp' = out.resp
              /\ uploaded' = IF out.resp.status = 200
                             THEN (up.model_id :> [filename |-> up.filename,
                                                   raced |-> up.raced]) @@ uploaded
                             ELSE uploaded
    /\ slots' = [slots EXCEPT ![s] = Idle]
    /\ UNCHANGED <<disk, issued, removed, lost>>

\* the uploads suspended while a Remove was answered 200 are marked
Raced(sl, ok) ==
    [t \in Slots |-> IF ok /\ sl[t].kind = "upload"
                     THEN [sl[t] EXCEPT !.raced = TRUE] ELSE sl[t]]

\* DELETE /remove-model/{model_id}, main.py:158-177: no await, one step
Remove(model_id) ==
    /\ \E ioerror \in BOOLEAN :
          LET out == remove_model(ifc_files, disk, model_id, ioerror)
              ok == out.resp.status = 200
          IN  /\ ifc_files' = out.ifc_files
              /\ disk' = out.disk
              /\ resp' = out.resp
              /\ removed' = IF ok THEN removed \cup {model_id} ELSE removed
              /\ slots' = Raced(slots, ok)
    /\ UNCHANGED <<issued, uploaded, lost>>

\* a DELETE request arrives; its handler is scheduled on the event loop
RemoveRequest(s, model_id) ==
    /\ FirstIdle(s)
    /\ slots' = [slots EXCEPT ![s] = Removing(model_id, 0)]
    /\ resp' = NoResponse
    /\ UNCHANGED <<ifc_files, disk, issued, uploaded, removed, lost>>

\* the slots after the DELETE of slot s was answered with status: the waiting
\* DELETEs for the same model_id, live until then, have met their rival
Rivalled(sl, s, live, status) ==
    [t \in Slots |->
        IF t = s
        THEN IF sl[s].rival = 0 THEN Idle
             ELSE Answered(sl[s].model_id, sl[s].rival, status)
        ELSE IF /\ live
                /\ sl[t].kind = "remove"
                /\ sl[t].model_id = sl[s].model_id
                /\ sl[t].rival = 0
        THEN [sl[t] EXCEPT !.rival = status]
        ELSE sl[t]]

\* main.py:158-177 runs, without an await, for the request of slot s
RemoveHandle(s) ==
    /\ slots[s].kind = "remove"
    /\ \E ioerror \in BOOLEAN :
          LET model_id == slots[s].model_id
              out == remove_model(ifc_files, disk, model_id, ioerror)
              ok == out.resp.status = 200
          IN  /\ ifc_files' = out.ifc_files
              /\ disk' = out.disk
              /\ resp' = out.resp
              /\ removed' = IF ok THEN removed \cup {model_id} ELSE removed
              /\ slots' = Rivalled(Raced(slots, ok), s, Contains(ifc_files, model_id),
                                   out.resp.status)
    /\ UNCHANGED <<issued, uploaded, lost>>

\* the client of slot s has read its answer
RemoveAnswered(s) ==
    /\ slots[s].kind = "answered"
    /\ slots' = [slots EXCEPT ![s] = Idle]
    /\ resp' = NoResponse
    /\ UNCHANGED <<ifc_files, disk, issued, uploaded, removed, lost>>

\* POST /get-element-by-guid, main.py:78-155: no await, one step
Query(model_id, guid) ==
    /\ \E miss \in ByGuidMiss : resp' = get_element_by_guid(ifc_files, model_id, guid, miss)
    /\ UNCHANGED <<ifc_files, disk, issued, slots, uploaded, removed, lost>>

\* a listing that takes the entries out of the dict as it walks it
List_drains ==
    /\ resp' = list_models(ifc_files)
    /\ ifc_files' = << >>
    /\ UNCHANGED <<disk, issued, slots, uploaded, removed, lost>>

\* GET /models, main.py:180-190: no await, one step
List ==
    /\ resp' = list_models(ifc_files)
    /\ UNCHANGED <<ifc_files, disk, issued, slots, uploaded, removed, lost>>

\* GET /, main.py:193-202
Root ==
    /\ resp' = root
    /\ UNCHANGED <<ifc_files, disk, issued, slots, uploaded, removed, lost>>

\* the environment: something other than the service deletes a scratch file
ScratchLost(path) ==
    /\ path \in disk
    /\ lost < MaxLost
    /\ disk' = disk \ {path}
    /\ lost' = lost + 1
    /\ resp' = NoResponse
    /\ UNCHANGED <<ifc_files, issued, slots, uploaded, removed>>

Next ==
    \/ \E s \in Slots, filename \in Filenames : UploadBegin(s, filename)
    \/ \E s \in Slots : UploadFinish(s)
    \/ \E model_id \in RequestIds : Remove(model_id)
    \/ \E model_id \in RequestIds, guid \in Guids : Query(model_id, guid)
    \/ List
    \/ Root
    \/ \E path \in disk : ScratchLost(path)

Spec == Init /\ [][Next]_vars

(******************* queries of one element, drawn freely ******************)
BoundedSeq(S, n) == UNION {[1..k -> S] : k \in 0..n}

RelPool ==
    {RelDefinesByType, RelDefinesByProperties(PropertySetDef),
     RelDefinesByProperties(DefinitionSet)}
    \cup {RelDefinesByProperties(ElementQuantity(qs)) :
              qs \in BoundedSeq(QuantityPool, MaxQuantities)}

\* the elements a model can hold under the guid "g1": any relationships up to
\* the bounds, get_psets working or raising, IsDefinedBy present or not
DrawnElements ==
    {Element("g1", "IfcWall", pok, WallPsets, TRUE, rels, TRUE) :
        pok \in BOOLEAN, rels \in BoundedSeq(RelPool, MaxRels)}
    \cup {Element("g1", "IfcPropertySet", pok, NoPsets, FALSE, << >>, aok) :
              pok \in BOOLEAN, aok \in BOOLEAN}

\* the store after one successful upload of a model that holds a drawn element
InitView ==
    /\ \E element \in DrawnElements :
          ifc_files = << Entry(uuid4(1), OpenedModel(<< >>, {element}),
                               NamedTemporaryFile(1), "a.ifc") >>
    /\ disk = {NamedTemporaryFile(1)}
    /\ issued = 1
    /\ slots = [s \in Slots |-> Idle]
    /\ resp = NoResponse
    /\ uploaded = (uuid4(1) :> [filename |-> "a.ifc", raced |-> FALSE])
    /\ removed = {}
    /\ lost = 0

NextView == \E model_id \in RequestIds, guid \in Guids : Query(model_id, guid)

SpecView == InitView /\ [][NextView]_vars

\* The same service with DELETE requests that wait for their turn on the event
\* loop, so that two of them can be outstanding at once.
UploadBeginQueued(s, filename) ==
    /\ issued < MaxQueuedModels
    /\ UploadBegin(s, filename)

NextQueued ==
    \/ \E s \in Slots, filename \in Filenames : UploadBeginQueued(s, filename)
    \/ \E s \in Slots : UploadFinish(s)
    \/ \E s \in Slots, model_id \in RequestIds : RemoveRequest(s, model_id)
    \/ \E s \in Slots : RemoveHandle(s)
    \/ \E s \in Slots : RemoveAnswered(s)
    \/ \E model_id \in RequestIds, guid \in Guids : Query(model_id, guid)
    \/ List

SpecQueued == Init /\ [][NextQueued]_vars

(******************************* claims ************************************)
Listed(files) == {<<e.model_id, e.filename>> : e \in {list_models(files).body[i] :
                                                        i \in DOMAIN list_models(files).body}}
ListedIds(files) == {p[1] : p \in Listed(files)}
OpenError == << "Error processing IFC: ", "open" >>

\* C1: an Upload whose content the engine cannot open is answered 500 and
\* registers nothing: the model_ids in the store after the request are those
\* before it, and List shows no entry for that upload.
C1_OpenFailureRegistersNothing ==
    [][ (resp'.op = "Upload" /\ resp'.detail = OpenError)
        => /\ resp'.status = 500
           /\ Keys(ifc_files') = Keys(ifc_files)
           /\ resp'.model_id \notin ListedIds(ifc_files') ]_vars

\* C1 happens: an open failure answered while another model is registered
C1_Witness ==
    /\ resp.op = "Upload"
    /\ resp.detail = OpenError
    /\ ifc_files # << >>

\* C2: a Query that names a model_id not in the store (never created, or
\* removed) is answered 404 "Model not found", whatever its guid.
C2_AbsentModelIs404 ==
    [][ (resp'.op = "Query" /\ ~Contains(ifc_files, resp'.model_id))
        => /\ resp'.status = 404
           /\ resp'.detail = ModelNotFound ]_vars

\* C2 happens: a removed model is queried for a guid its model carried
C2_Witness ==
    /\ resp.op = "Query"
    /\ resp.model_id \in removed
    /\ resp.model_id \in DOMAIN uploaded
    /\ uploaded[resp.model_id].filename = "a.ifc"
    /\ resp.guid = "g1"
    /\ resp.status = 404

\* the guids that the elements of a live model carry
GuidsOf(files, model_id) == {e.GlobalId : e \in Item(files, model_id).file.elements}

\* C3: a Query that names a live model_id and a guid no element of that model
\* carries is answered 404 with the guid in the message, never 500, never 200.
C3_MissingGuidIs404 ==
    (/\ resp.op = "Query"
     /\ Contains(ifc_files, resp.model_id)
     /\ resp.guid \notin GuidsOf(ifc_files, resp.model_id))
    => /\ resp.status = 404
       /\ \E i \in DOMAIN resp.detail : resp.detail[i] = resp.guid

\* C4: once a Remove of m was answered 200, every later Query or Remove that
\* names m is answered 404 and every later List omits m.
C4_RemovedStaysGone ==
    [][ \A m \in removed :
          /\ (resp'.op \in {"Query", "Remove"} /\ resp'.model_id = m) => resp'.status = 404
          /\ resp'.op = "List" => \A i \in DOMAIN resp'.body : resp'.body[i].model_id # m
          /\ m \notin ListedIds(ifc_files') ]_vars

\* C4 happens: a second Remove of a removed model is answered, with another
\* upload made in between
C4_Witness ==
    /\ resp.op = "Remove"
    /\ resp.model_id \in removed
    /\ resp.status = 404
    /\ issued > resp.model_id

\* the (model_id, filename) pairs of the uploads answered 200 and not removed
LiveUploads == {<<m, uploaded[m].filename>> : m \in DOMAIN uploaded \ removed}

\* C5: after any sequence of operations List returns exactly one (model_id,
\* filename) pair for each model uploaded successfully and not yet removed, with
\* the filename given at upload, and no other pair.
C5_ListIsExactlyLiveUploads ==
    /\ Listed(ifc_files) = LiveUploads
    /\ Len(list_models(ifc_files).body) = Cardinality(LiveUploads)

\* C6: two successful Uploads of the same content get two distinct model_ids and
\* make two live entries; each is queried from its own entry, and a Remove of one
\* leaves the other entry as it was: listed, queryable and removable.
C6_SameContentTwoModels ==
    [][ /\ (resp'.op = "Upload" /\ resp'.status = 200)
           => /\ resp'.model_id \notin DOMAIN uploaded
              /\ resp'.model_id \notin Keys(ifc_files)
              /\ Keys(ifc_files') = Keys(ifc_files) \cup {resp'.model_id}
              /\ Len(ifc_files') = Len(ifc_files) + 1
              /\ \A m \in Keys(ifc_files) : Item(ifc_files', m) = Item(ifc_files, m)
        /\ (resp'.op = "Remove" /\ resp'.status = 200)
           => /\ Keys(ifc_files') = Keys(ifc_files) \ {resp'.model_id}
              /\ \A m \in Keys(ifc_files') : Item(ifc_files', m) = Item(ifc_files, m)
        /\ (resp'.op = "Remove" /\ Contains(ifc_files, resp'.model_id))
           => resp'.status # 404
        /\ (/\ resp'.op = "Query"
            /\ Contains(ifc_files, resp'.model_id)
            /\ resp'.guid \in GuidsOf(ifc_files, resp'.model_id))
           => /\ resp'.status = 200
              /\ resp'.body.guid = resp'.guid ]_vars

\* C6 happens: of two uploads of the same file the first was removed and the
\* second, still listed, has just been queried
C6_Witness ==
    /\ DOMAIN uploaded = {1, 2}
    /\ uploaded[1].filename = uploaded[2].filename
    /\ removed = {1}
    /\ Listed(ifc_files) = {<<2, uploaded[2].filename>>}
    /\ resp.op = "Query"
    /\ resp.model_id = 2
    /\ resp.status = 200

\* C7: an Upload and a Remove of another model_id that overlap in time do not
\* disturb each other: under every interleaving, once both are answered the
\* uploaded model is listed, the removed one is not, and every other model
\* uploaded and not removed is still listed.
C7_UploadRemoveDoNotInterfere ==
    /\ \A m \in DOMAIN uploaded : (m \in ListedIds(ifc_files)) <=> (m \notin removed)
    /\ \A m \in DOMAIN uploaded \ removed :
          Item(ifc_files, m).filename = uploaded[m].filename
    /\ \A m \in removed : m \notin ListedIds(ifc_files)

\* C7 happens: an Upload answered 200 during whose suspension a Remove of
\* another model was answered 200
C7_Witness ==
    \E u \in DOMAIN uploaded :
        /\ uploaded[u].raced
        /\ u \notin removed
        /\ u \in ListedIds(ifc_files)
        /\ removed # {}

Queried == CHOOSE e \in Item(ifc_files, resp.model_id).file.elements :
               e.GlobalId = resp.guid
QueryAnswered200 == resp.op = "Query" /\ resp.status = 200

\* the quantities attached to an element through quantity-defining
\* relationships, in the order of the relationships
RECURSIVE Attached(_)
Attached(rels) ==
    IF rels = << >> THEN << >>
    ELSE (IF /\ Head(rels).is_a = "IfcRelDefinesByProperties"
             /\ Head(rels).RelatingPropertyDefinition.is_a = "IfcElementQuantity"
          THEN Head(rels).RelatingPropertyDefinition.Quantities
          ELSE << >>) \o Attached(Tail(rels))

ValueKinds == {"IfcQuantityLength", "IfcQuantityArea", "IfcQuantityVolume"}
UnitOf(kind) == CASE kind = "IfcQuantityLength" -> "m"
                  [] kind = "IfcQuantityArea" -> "m²"
                  [] kind = "IfcQuantityVolume" -> "m³"

\* quantity retrieval fails: no IsDefinedBy on the entity, or a relationship
\* whose definition is a set of definitions
WalkFails(element) ==
    \/ ~element.hasIsDefinedBy
    \/ \E i \in DOMAIN element.IsDefinedBy :
          /\ element.IsDefinedBy[i].is_a = "IfcRelDefinesByProperties"
          /\ element.IsDefinedBy[i].RelatingPropertyDefinition.is_a = "tuple"

HasQuantity(view, n) ==
    "Quantities" \in DOMAIN view.psets /\ n \in DOMAIN view.psets["Quantities"]

\* C9 as stated: every length-, area- or volume-valued quantity attached to the
\* queried element, named n, is psets.Quantities[n] = {value, unit} with the
\* unit of its kind, and a quantity of none of the three kinds is absent.
C9_EveryQuantityMapped ==
    QueryAnswered200 =>
        LET qs == Attached(Queried.IsDefinedBy)
        IN  \A i \in DOMAIN qs :
               IF qs[i].kind \in ValueKinds
               THEN /\ HasQuantity(resp.body, qs[i].Name)
                    /\ resp.body.psets["Quantities"][qs[i].Name]
                         = [value |-> qs[i].value, unit |-> UnitOf(qs[i].kind)]
               ELSE ~HasQuantity(resp.body, qs[i].Name)

\* the positions in qs of the quantities named n that carry one of the kinds
Valued(qs, n) == {i \in DOMAIN qs : qs[i].Name = n /\ qs[i].kind \in ValueKinds}
Last(S) == CHOOSE i \in S : \A j \in S : j <= i

\* C9, amended: when quantity retrieval does not fail, psets.Quantities has a
\* key n exactly for the names n of the attached length-, area- or
\* volume-valued quantities, and its entry is {value, unit} of the last such
\* quantity named n, with unit m, m² or m³ by its kind; a name carried only by
\* quantities of none of the three kinds is absent; without any such quantity,
\* or when retrieval fails, there is no Quantities entry.
C9_LastValuedQuantityMapped ==
    QueryAnswered200 =>
        LET qs == Attached(Queried.IsDefinedBy)
            names == {qs[i].Name : i \in {j \in DOMAIN qs : qs[j].kind \in ValueKinds}}
        IN  IF WalkFails(Queried) \/ names = {}
            THEN "Quantities" \notin DOMAIN resp.body.psets
            ELSE /\ "Quantities" \in DOMAIN resp.body.psets
                 /\ DOMAIN resp.body.psets["Quantities"] = names
                 /\ \A n \in names :
                       LET q == qs[Last(Valued(qs, n))]
                       IN  resp.body.psets["Quantities"][n]
                             = [value |-> q.value, unit |-> UnitOf(q.kind)]

\* C9 happens: a query answered with a length entry while a quantity of no
\* value-kind was attached as well
C9_Witness ==
    /\ QueryAnswered200
    /\ ~WalkFails(Queried)
    /\ HasQuantity(resp.body, "Length")
    /\ resp.body.psets["Quantities"]["Length"] = [value |-> 5, unit |-> "m"]
    /\ ~HasQuantity(resp.body, "Count")
    /\ \E i \in DOMAIN Attached(Queried.IsDefinedBy) :
          Attached(Queried.IsDefinedBy)[i].Name = "Count"

\* the mapping without its Quantities entry
PropertySets(psets) == [n \in DOMAIN psets \ {"Quantities"} |-> psets[n]]

\* C10: property-set retrieval and quantity retrieval degrade independently.  A
\* Query of a live model for a guid it carries is answered 200, never 500; if
\* get_psets fails the answer holds the quantities alone; if quantity retrieval
\* fails, also after some quantities were collected, it holds the property
\* sets as get_psets gave them and no Quantities entry.
C10_RetrievalsDegradeIndependently ==
    (/\ resp.op = "Query"
     /\ Contains(ifc_files, resp.model_id)
     /\ resp.guid \in GuidsOf(ifc_files, resp.model_id))
    => /\ resp.status = 200
       /\ ~Queried.psetsOk
          => /\ PropertySets(resp.body.psets) = EmptyMap
             /\ (~WalkFails(Queried)
                 /\ \E i \in DOMAIN Attached(Queried.IsDefinedBy) :
                       Attached(Queried.IsDefinedBy)[i].kind \in ValueKinds)
                => "Quantities" \in DOMAIN resp.body.psets
       /\ Queried.psetsOk => PropertySets(resp.body.psets) = Queried.psets
       /\ WalkFails(Queried) => "Quantities" \notin DOMAIN resp.body.psets

\* C10 happens: get_psets worked and quantity retrieval failed after a valued
\* quantity had been collected; the answer is 200 with the property sets
C10_Witness ==
    /\ QueryAnswered200
    /\ Queried.psetsOk
    /\ Queried.psets # EmptyMap
    /\ Queried.hasIsDefinedBy
    /\ Len(Queried.IsDefinedBy) = 2
    /\ Queried.IsDefinedBy[1].RelatingPropertyDefinition.is_a = "IfcElementQuantity"
    /\ \E i \in DOMAIN Attached(Queried.IsDefinedBy) :
          Attached(Queried.IsDefinedBy)[i].kind \in ValueKinds
    /\ Queried.IsDefinedBy[2].RelatingPropertyDefinition.is_a = "tuple"
    /\ resp.body.psets = Queried.psets

\* the content whose model has no IfcProject
NoProjectContents == {c \in Contents : CanOpen(c) /\ Open(c).projects = << >>}

\* C11: an Upload of a model that opens and has no project root is accepted.
\* Whenever such an upload is suspended at its read, the handler run on that
\* content (the scratch file in place, no later call failing) answers 200 with
\* project_name "Unknown" and stores the entry; and every Upload answered 200
\* for a model without project carries project_name "Unknown" and is live.
C11_NoProjectIsAccepted ==
    [][ /\ \A s \in Slots, c \in NoProjectContents :
              (slots[s].kind = "upload" /\ slots[s].tmp_path \in disk)
              => LET up == slots[s]
                     out == upload_ifc(ifc_files, up.model_id, up.tmp_path,
                                       up.filename, c, TRUE, FALSE)
                 IN  /\ out.resp.status = 200
                     /\ out.resp.body.project_name = "Unknown"
                     /\ Contains(out.ifc_files, up.model_id)
                     /\ Item(out.ifc_files, up.model_id).file = Open(c)
        /\ (resp'.op = "Upload" /\ resp'.status = 200)
           => /\ Contains(ifc_files', resp'.model_id)
              /\ (Item(ifc_files', resp'.model_id).file.projects = << >>
                    <=> resp'.body.project_name = "Unknown") ]_vars

\* C11 happens: an upload of the model without project was answered 200 with
\* project_name "Unknown" and is listed
C11_Witness ==
    /\ resp.op = "Upload"
    /\ resp.status = 200
    /\ resp.body.project_name = "Unknown"
    /\ Contains(ifc_files, resp.model_id)
    /\ Item(ifc_files, resp.model_id).file.projects = << >>
    /\ resp.model_id \in ListedIds(ifc_files)

\* C12: a Remove of a live model_id whose scratch file is already missing is
\* answered 200 and deletes the entry.
C12_MissingScratchFileIsNoError ==
    [][ (/\ resp'.op = "Remove"
         /\ Contains(ifc_files, resp'.model_id)
         /\ Item(ifc_files, resp'.model_id).path \notin disk)
        => /\ resp'.status = 200
           /\ ~Contains(ifc_files', resp'.model_id)
           /\ Keys(ifc_files') = Keys(ifc_files) \ {resp'.model_id}
           /\ disk' = disk ]_vars

\* C12 happens: the only scratch file ever created was deleted from outside
\* and the Remove of its model, the only Remove that succeeded, was answered 200
C12_Witness ==
    /\ resp.op = "Remove"
    /\ resp.status = 200
    /\ issued = 1
    /\ lost = 1
    /\ removed = {resp.model_id}
    /\ resp.model_id \in DOMAIN uploaded

\* the scratch files the live entries name
BackingPaths(files) == {files[i].path : i \in DOMAIN files}

\* C13: one scratch file per uploaded model.  While no scratch file was deleted
\* from outside, the backing_path of every live entry exists and no two live
\* entries share one; and a Remove answered 200 leaves no scratch file under the
\* backing_path of the entry it removed.
C13_OneScratchFilePerModel ==
    [][ /\ lost' = 0
           => /\ \A i \in DOMAIN ifc_files' : ifc_files'[i].path \in disk'
              /\ \A i, j \in DOMAIN ifc_files' :
                    ifc_files'[i].path = ifc_files'[j].path => i = j
        /\ (resp'.op = "Remove" /\ resp'.status = 200)
           => /\ Item(ifc_files, resp'.model_id).path \notin disk'
              /\ Item(ifc_files, resp'.model_id).path \notin BackingPaths(ifc_files') ]_vars

\* C13 happens: of two models uploaded one was removed, and the scratch file
\* left is the one of the entry that is still live
C13_Witness ==
    /\ lost = 0
    /\ resp.op = "Remove"
    /\ resp.status = 200
    /\ Len(ifc_files) = 1
    /\ BackingPaths(ifc_files) = disk
    /\ issued = 2

\* the scratch files that no entry names and no suspended upload owns
Orphans(files, dsk, sl) ==
    dsk \ (BackingPaths(files)
             \cup {sl[s].tmp_path : s \in {t \in Slots : sl[t].kind = "upload"}})

\* C14: when the engine fails to open the content of an Upload, the scratch
\* file written for it stays: after the 500 the file exists and no entry names
\* it; and a scratch file that no entry names is never deleted by the service
\* (it goes only when something outside deletes it), whatever Remove is made.
C14_OpenFailureLeavesScratchFile ==
    [][ /\ \A s \in Slots :
              (/\ slots[s].kind = "upload"
               /\ slots'[s] = Idle
               /\ resp'.op = "Upload"
               /\ resp'.model_id = slots[s].model_id
               /\ resp'.detail = OpenError
               /\ slots[s].tmp_path \in disk)
              => /\ resp'.status = 500
                 /\ slots[s].tmp_path \in disk'
                 /\ slots[s].tmp_path \notin BackingPaths(ifc_files')
                 /\ slots[s].tmp_path \in Orphans(ifc_files', disk', slots')
        /\ lost' = lost
           => Orphans(ifc_files, disk, slots) \subseteq Orphans(ifc_files', disk', slots')
        /\ \A model_id \in RequestIds, ioerror \in BOOLEAN :
              Orphans(ifc_files, disk, slots)
                 \subseteq remove_model(ifc_files, disk, model_id, ioerror).disk ]_vars

\* C14 happens: an open failure was just answered while another model is
\* live; the scratch file of the failed upload exists and no entry names it
C14_Witness ==
    /\ lost = 0
    /\ resp.op = "Upload"
    /\ resp.detail = OpenError
    /\ ifc_files # << >>
    /\ \A s \in Slots : slots[s] = Idle
    /\ Cardinality(Orphans(ifc_files, disk, slots)) = 1
    /\ disk = BackingPaths(ifc_files) \cup Orphans(ifc_files, disk, slots)
    /\ Cardinality(disk) = issued

\* C15: when deleting the scratch file of a live model_id fails with an I/O
\* error, Remove is answered 500 and the entry stays: the store and the scratch
\* files are as before, the model is listed, a Query for a guid it carries is
\* answered 200, and a Remove of it is not answered 404.
C15_RemoveIOErrorKeepsEntry ==
    [][ (resp'.op = "Remove" /\ resp'.status = 500)
        => LET m == resp'.model_id
           IN  /\ Contains(ifc_files, m)
               /\ Item(ifc_files, m).path \in disk
               /\ ifc_files' = ifc_files
               /\ disk' = disk
               /\ m \in ListedIds(ifc_files')
               /\ \A guid \in GuidsOf(ifc_files', m), miss \in ByGuidMiss :
                     get_element_by_guid(ifc_files', m, guid, miss).status = 200
               /\ \A ioerror \in BOOLEAN :
                     remove_model(ifc_files', disk', m, ioerror).resp.status # 404 ]_vars

\* C15 happens: a Remove of a successfully uploaded model was answered 500 and
\* the model is still listed with its scratch file in place
C15_Witness ==
    /\ resp.op = "Remove"
    /\ resp.status = 500
    /\ resp.model_id \in DOMAIN uploaded
    /\ resp.model_id \notin removed
    /\ resp.model_id \in ListedIds(ifc_files)
    /\ Item(ifc_files, resp.model_id).path \in disk

\* the first piece of the detail of a 500: the text the handler's outer
\* `except Exception` puts before str(e)
Prefixes500 == [Upload |-> "Error processing IFC: ",
                Query |-> "Error retrieving element: ",
                Remove |-> "Error removing model: "]

\* C16: the propagation policy.  In Upload, Query and Remove a NotFound outcome
\* (the model is not in the store; the live model holds no element with the
\* guid) is answered 404 and never 500, every other failure raised inside the
\* handler is answered 500 with the handler's prefix, and every request is
\* answered with one of 200, 404 and 500.
C16_PropagationPolicy ==
    [][ /\ resp'.op \in {"Upload", "Query", "Remove"}
           => /\ resp'.status \in {200, 404, 500}
              /\ resp'.status = 500 => resp'.detail[1] = Prefixes500[resp'.op]
        /\ (resp'.op \in {"Query", "Remove"} /\ ~Contains(ifc_files, resp'.model_id))
           => resp'.status = 404
        /\ (/\ resp'.op = "Query"
            /\ Contains(ifc_files, resp'.model_id)
            /\ resp'.guid \notin GuidsOf(ifc_files, resp'.model_id))
           => resp'.status = 404 ]_vars

\* C17: Query, List and Root leave the store and the scratch files as they
\* were, whatever the status of the answer; the answer to a Query is the one
\* the handler gives again on the store it left (the engine answering a missing
\* guid the same way), and a List again lists what it listed.
C17_ReadsChangeNothing ==
    [][ resp'.op \in {"Query", "List", "Root"}
        => /\ ifc_files' = ifc_files
           /\ disk' = disk
           /\ Listed(ifc_files') = Listed(ifc_files)
           /\ resp'.op = "Query"
              => \E miss \in ByGuidMiss :
                    /\ resp' = get_element_by_guid(ifc_files, resp'.model_id,
                                                   resp'.guid, miss)
                    /\ resp' = get_element_by_guid(ifc_files', resp'.model_id,
                                                   resp'.guid, miss)
           /\ resp'.op = "List" => resp' = list_models(ifc_files') ]_vars

\* C17 happens: a Query of a live model was answered 500 with two entries in
\* the store and both scratch files in place
C17_Witness ==
    /\ resp.op = "Query"
    /\ resp.status = 500
    /\ Contains(ifc_files, resp.model_id)
    /\ Len(ifc_files) = 2
    /\ BackingPaths(ifc_files) = disk

\* the model_ids of a sequence of entries, in its order
Ids(files) == [i \in DOMAIN files |-> files[i].model_id]

C19_FailedUploadLeavesStoreUnchanged ==
    [][ (resp'.op = "Upload" /\ resp'.status # 200) => ifc_files' = ifc_files ]_vars

====
